---- MODULE Spec2Model ----
(***************************************************************************)
(* Model of the matter enrichment pipeline of seeding-sovereignty:         *)
(*   main.py                      main                                     *)
(*   seeding_sovereignty/sheets   get_column_ranges, collect_filenos,      *)
(*                                upload_file_infos                        *)
(*   seeding_sovereignty/legistar get_matter_info, get_matter_sponsors,    *)
(*                                extend_matter_info, find_related_bills   *)
(* One action per external request (a Sheets call or a Legistar query)     *)
(* together with all the code that runs up to the next request.  The       *)
(* answer of each request is an input of the action.                       *)
(*                                                                         *)
(* Python values: a dict is a record (a key that may be absent is a field  *)
(* that may be absent), a list is a sequence, None is NoneVal, a variable  *)
(* that is not bound yet is the empty sequence and a bound one is a        *)
(* one-element sequence holding the value (Some / Unbound).                *)
(***************************************************************************)
EXTENDS Integers, Sequences, FiniteSets, TLC

VARIABLES
    pc,                 \* position of main: "main", "resolve", "sponsors", "related", "upload", "done"
    call_args,          \* whether the call sites pass spreadsheet_id and year to the sheets functions
    api_token,          \* whether NYC_COUNCIL_API_KEY is set in the environment
    headers,            \* row 2 of the sheet as last read by get_column_ranges (Some / Unbound)
    column_ranges,      \* what the last call of get_column_ranges returned (Some / Unbound)
    values,             \* the "File #" column as read by collect_filenos
    file_names,         \* main.file_names / get_matter_info.file_names
    chunks,             \* the chunks queried so far (one resolve query each)
    all_matters,        \* get_matter_info.all_matters
    file_name_to_matter,\* get_matter_info.file_name_to_matter (dict, in insertion order)
    sorted_matters,     \* get_matter_info.sorted_matters, enriched in place
    k,                  \* index of the matter being enriched (1-based)
    sponsors,           \* extend_matter_info.sponsors of the matter being enriched (Some / Unbound)
    roster,             \* the sponsor roster upstream answered last (Some / Unbound)
    related,            \* the answer of the last matters-by-name query (Some / Unbound)
    matter_data,        \* main.matter_data (Some / Unbound)
    error,              \* the exception caught by main, or NoError
    warnings,           \* logging.warning records: matter files without a prime sponsor
    bad_status,         \* whether some upstream query of this run answered a non-200 status
    writes              \* the batchUpdate requests issued to the spreadsheet

vars == << pc, call_args, api_token, headers, column_ranges, values, file_names, chunks, all_matters,
           file_name_to_matter, sorted_matters, k, sponsors, roster, related,
           matter_data, error, warnings, bad_status, writes >>

(***************************************************************************)
(* Program constants                                                       *)
(***************************************************************************)
SPONSORS_NEEDED == 26
CHUNK_SIZE == 15
SORT_SENTINEL == 999
HTTP_OK == 200
FIRST_DATA_ROW == 3
ORD_A == 65

FILE_COLUMN == "File #"
NAME_COLUMN == "Name"
PRIME_SPONSOR_COLUMN == "Prime Sponsor"
SUMMARY_COLUMN == "Original Summary"
SPONSORS_COUNT_COLUMN == "# Current Co-Sponsors"
REMAINING_COLUMN == "# Co-Sponsors Needed"
SPONSORS_LIST_COLUMN == "Current Co-Sponsors"
INFO_COLUMN == "Bill History"

\* the list get_column_ranges iterates over, in its order
RequiredHeaders ==
    << FILE_COLUMN, NAME_COLUMN, SUMMARY_COLUMN, SPONSORS_LIST_COLUMN,
       PRIME_SPONSOR_COLUMN, SPONSORS_COUNT_COLUMN, REMAINING_COLUMN, INFO_COLUMN >>

(***************************************************************************)
(* Bounds of the explored inputs                                           *)
(***************************************************************************)
MaxRows == 2        \* rows of a short "File #" column
MaxResp == 2        \* records in the answer to a short chunk query
MaxRoster == 3      \* sponsors in an arbitrary roster
MaxSponsors == 27   \* sponsors in a long roster (distinct sequences)
MaxRelated == 2     \* records in the answer to a matters-by-name query
MaxLong == 31       \* identifiers in a long "File #" column

(***************************************************************************)
(* Python values and generic helpers                                       *)
(***************************************************************************)
NoneVal == "None"
Unbound == << >>
Some(v) == << v >>
IsBound(o) == Len(o) = 1
Get(o) == o[1]

Range(s) == { s[j] : j \in DOMAIN s }
Max(a, b) == IF a >= b THEN a ELSE b
Min(a, b) == IF a <= b THEN a ELSE b

\* s[from : to] of Python, 0-based, to exclusive, clipped to the list
Slice(s, from, to) == SubSeq(s, from + 1, Min(to, Len(s)))

Reverse(s) == [ j \in 1..Len(s) |-> s[Len(s) + 1 - j] ]

\* [s[j] for j in range(len(s)) if j in kept]: the elements at the positions
\* kept, in the order of s
Select(s, kept) ==
    LET F[j \in 0..Len(s)] ==
            IF j = 0 THEN << >>
            ELSE IF j \in kept THEN Append(F[j - 1], s[j]) ELSE F[j - 1]
    IN  F[Len(s)]

\* sequences over S of length at most n
SeqsUpTo(S, n) == UNION { [1..m -> S] : m \in 0..n }
\* lists without repeated elements over S of length at most n
DistinctSeqsUpTo(S, n) ==
    { s \in SeqsUpTo(S, n) : \A a, b \in DOMAIN s : a # b => s[a] # s[b] }
\* the orders a set can be iterated in
Orders(S) == { s \in [1..Cardinality(S) -> S] : Range(s) = S }

(***************************************************************************)
(* sheets.py: get_column_ranges                                            *)
(***************************************************************************)
\* headers.index(header): the 0-based position of the first occurrence
Index(row, header) == (CHOOSE j \in DOMAIN row : row[j] = header /\ \A m \in 1..(j - 1) : row[m] # header) - 1

\* f"{sheet_name}!{col_letter}3:{col_letter}" with col_letter = chr(65 + col_index):
\* the column by its character code, open-ended from the first data row
ColumnRange(col_index) == [ letter |-> ORD_A + col_index, row |-> FIRST_DATA_ROW ]

\* faulty variant of MissingHeaders: the loop stops at the first header not found
MissingHeadersFirstOnly(row) ==
    SubSeq(Select(RequiredHeaders, { j \in DOMAIN RequiredHeaders : RequiredHeaders[j] \notin Range(row) }), 1, 1)

\* errors: the headers for which headers.index raised ValueError, in loop order
MissingHeaders(row) ==
    Select(RequiredHeaders, { j \in DOMAIN RequiredHeaders : RequiredHeaders[j] \notin Range(row) })

\* column_ranges after the loop: a range, or None (Unbound) for a header not found
ColumnRanges(row) ==
    [ h \in Range(RequiredHeaders) |->
        IF h \in Range(row) THEN Some(ColumnRange(Index(row, h))) ELSE Unbound ]

\* get_column_ranges: raises ValueError(errors) when errors is non-empty,
\* returns column_ranges otherwise
get_column_ranges(row) ==
    LET errors == MissingHeaders(row)
    IN  IF errors # << >>
        THEN [ raised |-> TRUE, errors |-> errors, column_ranges |-> Unbound ]
        ELSE [ raised |-> FALSE, errors |-> << >>, column_ranges |-> Some(ColumnRanges(row)) ]

\* header rows the sheet may hold when row 2 is read
BaseRow ==
    << FILE_COLUMN, NAME_COLUMN, PRIME_SPONSOR_COLUMN, SUMMARY_COLUMN,
       SPONSORS_COUNT_COLUMN, REMAINING_COLUMN, SPONSORS_LIST_COLUMN, INFO_COLUMN >>
Without(row, dropped) == Select(row, { j \in DOMAIN row : row[j] \notin dropped })
HeaderRows ==
    { BaseRow,
      << "Notes" >> \o Reverse(BaseRow),
      << NAME_COLUMN >> \o BaseRow,
      Without(BaseRow, { NAME_COLUMN }),
      Without(BaseRow, { NAME_COLUMN, INFO_COLUMN }),
      Without(BaseRow, { FILE_COLUMN, REMAINING_COLUMN, SUMMARY_COLUMN }),
      << >> }

(***************************************************************************)
(* sheets.py: collect_filenos                                              *)
(***************************************************************************)
\* A cell of the "File #" column is an identifier, possibly surrounded by
\* whitespace (pad); a row of the answer is a list holding the cell, or the
\* empty list for an empty row.  Identifiers are opaque tokens (numbers here).
Cell(f, pad) == [ text |-> f, pad |-> pad ]
\* str.strip(): the text without the surrounding whitespace
Strip(cell) == cell.text

\* [row[0].strip() for row in values if row]
FileNosOf(vals) ==
    LET rows == Select(vals, { j \in DOMAIN vals : vals[j] # << >> })
    IN  [ j \in 1..Len(rows) |-> Strip(rows[j][1]) ]

SmallIds == 1..2
RowPool == { << >>, << Cell(1, FALSE) >>, << Cell(1, TRUE) >>, << Cell(2, FALSE) >> }
LongLens == { CHUNK_SIZE, CHUNK_SIZE + 1, 2 * CHUNK_SIZE, MaxLong }
LongColumn(n) == [ j \in 1..n |-> << Cell(j, FALSE) >> ]
\* the contents the "File #" column may have
\* a column with an empty row between two identifiers
GapColumn == << << Cell(1, FALSE) >>, << >>, << Cell(2, FALSE) >> >>
Columns == SeqsUpTo(RowPool, MaxRows) \cup { LongColumn(n) : n \in LongLens } \cup { GapColumn }

(***************************************************************************)
(* legistar.py: upstream records                                           *)
(***************************************************************************)
Statuses == { HTTP_OK, 500 }

MatterNames == << "Air Quality Act", "Air Quality Act (old)" >>
\* a GranicusMatter parsed into a dict; v tells two upstream records of one file apart
\* (the older one has no MatterEXText5 element)
MatterRecord(f, v) ==
    [ MatterId |-> 1000 * (v + 1) + f, MatterFile |-> f, MatterName |-> MatterNames[v + 1] ]
        @@ (IF v = 0 THEN [ MatterEXText5 |-> "summary" ] ELSE << >>)

RecordPool == { MatterRecord(f, 0) : f \in SmallIds } \cup { MatterRecord(1, 1) }
RecordsOf(chunk) == [ j \in 1..Len(chunk) |-> MatterRecord(chunk[j], 0) ]
\* the answers upstream may give to the resolve query of a chunk: for a short
\* chunk any list of records, in any order, of the chunk or not; for a long
\* chunk its records in order, reversed, all but the last, or none
Responses(chunk) ==
    IF Range(chunk) \subseteq SmallIds
    THEN DistinctSeqsUpTo(RecordPool, MaxResp)
    ELSE { RecordsOf(chunk), Reverse(RecordsOf(chunk)),
           SubSeq(RecordsOf(chunk), 1, Len(chunk) - 1), << >> }

(***************************************************************************)
(* legistar.py: get_matter_info, lines 128-174                             *)
(***************************************************************************)
\* chunk = file_names[i : i + CHUNK_SIZE]
ChunkAt(names, i) == Slice(names, i, i + CHUNK_SIZE)
\* faulty variant of HasNextChunk: the bound of the range is off by one
HasNextChunkInclusive(names, i) == i + CHUNK_SIZE <= Len(names)

\* whether range(0, len(file_names), CHUNK_SIZE) has a value after i
HasNextChunk(names, i) == i + CHUNK_SIZE < Len(names)

\* a dict as the list of its entries in insertion order
DictHas(d, key) == \E j \in DOMAIN d : d[j].key = key
DictGet(d, key) == (CHOOSE e \in Range(d) : e.key = key).value
\* d[key] = value: replaces the value of a key already there, appends a new key
DictSet(d, key, value) ==
    IF DictHas(d, key)
    THEN [ j \in DOMAIN d |-> IF d[j].key = key THEN [ key |-> key, value |-> value ] ELSE d[j] ]
    ELSE Append(d, [ key |-> key, value |-> value ])

\* {matter["MatterFile"]: matter for matter in all_matters}
FileNameToMatter(matters) ==
    LET F[j \in 0..Len(matters)] ==
            IF j = 0 THEN << >>
            ELSE DictSet(F[j - 1], matters[j].MatterFile, matters[j])
    IN  F[Len(matters)]

\* faulty variant of MissingFiles: only the first missing name is kept
MissingFilesFirstOnly(names, d) ==
    SubSeq(Select(names, { j \in DOMAIN names : ~(\E e \in DOMAIN d : d[e].key = names[j]) }), 1, 1)

\* [name for name in file_names if name not in file_name_to_matter]
MissingFiles(names, d) == Select(names, { j \in DOMAIN names : ~DictHas(d, names[j]) })

\* [file_name_to_matter[file_name] for file_name in file_names]
SortedMatters(names, d) == [ j \in 1..Len(names) |-> DictGet(d, names[j]) ]

(***************************************************************************)
(* legistar.py: get_matter_sponsors                                        *)
(***************************************************************************)
\* the decimal texts upstream uses for sponsor sequences: Numerals[n + 1] is str(n)
Numerals ==
    << "0", "1", "2", "3", "4", "5", "6", "7", "8", "9",
       "10", "11", "12", "13", "14", "15", "16", "17", "18", "19",
       "20", "21", "22", "23", "24", "25", "26", "27", "28", "29",
       "30", "31", "32", "33", "34", "35", "36", "37", "38", "39" >>
\* int(text) of a decimal text
IntOf(text) == Index(Numerals, text)

\* a GranicusMatterSponsor parsed into a dict: the sequence element may be
\* missing (no key), empty (None) or a decimal text
Sponsor(name, seq) == [ MatterSponsorName |-> name, MatterSponsorSequence |-> seq ]
SponsorNoSeq(name) == [ MatterSponsorName |-> name ]
HasSeq(sp) == "MatterSponsorSequence" \in DOMAIN sp
\* sponsor.get("MatterSponsorSequence")
GetSeq(sp) == IF HasSeq(sp) THEN sp.MatterSponsorSequence ELSE NoneVal

\* int(x.get("MatterSponsorSequence", 999)): int(None) raises TypeError
SortKeyRaises(sp) == HasSeq(sp) /\ sp.MatterSponsorSequence = NoneVal
SortKey(sp) == IF HasSeq(sp) THEN IntOf(sp.MatterSponsorSequence) ELSE SORT_SENTINEL

\* sorted(sponsors, key=...): ascending by key, equal keys keep their order.
\* SortedPosition is the place of the j-th sponsor in the result.
SortedPosition(list, j) ==
    Cardinality({ m \in DOMAIN list : SortKey(list[m]) < SortKey(list[j]) })
        + Cardinality({ m \in 1..j : SortKey(list[m]) = SortKey(list[j]) })
SortedSponsors(list) ==
    [ p \in 1..Len(list) |-> list[CHOOSE j \in DOMAIN list : SortedPosition(list, j) = p] ]

SponsorNames == { "A", "B" }
SponsorPool ==
    { Sponsor(n, q) : n \in SponsorNames, q \in { "0", "1", NoneVal } }
        \cup { SponsorNoSeq(n) : n \in SponsorNames }
\* n sponsors with the sequences 0 .. n-1, answered from the last to the first
LongRoster(n) ==
    [ j \in 1..n |-> Sponsor(IF j = n THEN "A" ELSE "B", Numerals[n + 1 - j]) ]
\* the roster of the reference scenario: sequences "0", "1", "1"
ScenarioRoster == << Sponsor("A", "0"), Sponsor("B", "1"), Sponsor("B", "1") >>
\* the run on which every short roster, the long rosters and every short
\* answer to the matters-by-name query are explored
RichRun == values = << << Cell(2, FALSE) >> >> /\ all_matters = << MatterRecord(2, 0) >>
\* the rosters upstream may answer
Rosters ==
    IF RichRun
    THEN SeqsUpTo(SponsorPool, MaxRoster)
            \cup { LongRoster(n) : n \in (SPONSORS_NEEDED - 1)..MaxSponsors }
            \cup { ScenarioRoster }
    ELSE IF Range(file_names) \subseteq SmallIds
    THEN { ScenarioRoster, << Sponsor("B", "1") >>, << SponsorNoSeq("A") >> }
    ELSE { ScenarioRoster, << SponsorNoSeq("A") >> }

(***************************************************************************)
(* legistar.py: extend_matter_info, lines 73-99                            *)
(***************************************************************************)
\* next((sponsor for sponsor in sponsors if sponsor.get(...) == "0"), None)
HasPrime(list) == \E j \in DOMAIN list : GetSeq(list[j]) = "0"
PrimeSponsor(list) ==
    list[CHOOSE j \in DOMAIN list :
            GetSeq(list[j]) = "0" /\ \A m \in 1..(j - 1) : GetSeq(list[m]) # "0"]
PrimeSponsorName(list) ==
    IF HasPrime(list) THEN PrimeSponsor(list).MatterSponsorName ELSE NoneVal

\* sponsor["MatterSponsorSequence"] raises KeyError for a dict without the key
SequenceKeyError(list) == \E j \in DOMAIN list : ~HasSeq(list[j])

\* faulty variant of SponsorCount: the sequences are counted without set()
SponsorCountOfList(list) == Len(list)

\* len(set([sponsor["MatterSponsorSequence"] for sponsor in sponsors]))
SponsorCount(list) == Cardinality({ list[j].MatterSponsorSequence : j \in DOMAIN list })

\* faulty variant of SponsorsList: the comprehension has no condition
SponsorsListUnfiltered(list) == { list[j].MatterSponsorName : j \in DOMAIN list }

\* set([sponsor["MatterSponsorName"] for sponsor in sponsors
\*      if sponsor["MatterSponsorSequence"] != "0"])
SponsorsList(list) ==
    { list[j].MatterSponsorName : j \in { m \in DOMAIN list : list[m].MatterSponsorSequence # "0" } }

\* faulty variant of SponsorsRemainingNeeded: the difference is not floored
SponsorsRemainingUnclamped(count) == SPONSORS_NEEDED - count

\* max(SPONSORS_NEEDED - sponsor_count, 0)
SponsorsRemainingNeeded(count) == Max(SPONSORS_NEEDED - count, 0)

\* the matter dict after lines 82-99
WithSponsorInfo(matter, list) ==
    [ PrimeSponsor |-> PrimeSponsorName(list),
      SponsorCount |-> SponsorCount(list),
      Sponsors |-> SponsorsList(list),
      SponsorsRemainingNeeded |-> SponsorsRemainingNeeded(SponsorCount(list)) ] @@ matter

(***************************************************************************)
(* legistar.py: find_related_bills                                         *)
(***************************************************************************)
\* a bill of an earlier session with the same name
PriorYear(f) == f + 100
RelatedRecord(f) == [ MatterFile |-> f, MatterName |-> MatterNames[1] ]
RecordNoFile == [ MatterName |-> MatterNames[1] ]
RelatedPool(file) == { RelatedRecord(file), RelatedRecord(PriorYear(file)), RecordNoFile }
\* the answers upstream may give to the matters-by-name query
RelatedResponses(file) ==
    IF RichRun
    THEN SeqsUpTo(RelatedPool(file), MaxRelated)
    ELSE { << RelatedRecord(PriorYear(file)), RelatedRecord(file) >> }

\* faulty variant of RelatedFiles: the matter itself is not left out
RelatedFilesWithSelf(resp, matter_file) ==
    LET kept == Select(resp, { j \in DOMAIN resp : "MatterFile" \in DOMAIN resp[j] })
    IN  [ j \in 1..Len(kept) |-> kept[j].MatterFile ]

\* lines 238-254: the MatterFile of every record that has one other than matter_file
RelatedFiles(resp, matter_file) ==
    LET kept == Select(resp, { j \in DOMAIN resp :
                    "MatterFile" \in DOMAIN resp[j] /\ resp[j].MatterFile # matter_file })
    IN  [ j \in 1..Len(kept) |-> kept[j].MatterFile ]

\* the matter dict after line 102
WithRelatedBills(matter, bills) == [ RelatedBills |-> bills ] @@ matter

(***************************************************************************)
(* sheets.py: upload_file_infos, lines 170-218                             *)
(***************************************************************************)
\* "\n".join(items): the text made of the items, one per line
Join(items) == [ lines |-> items ]
\* matter.get("MatterEXText5", "")
SummaryOf(matter) == IF "MatterEXText5" \in DOMAIN matter THEN matter.MatterEXText5 ELSE ""

\* one {"range": ..., "values": ...} entry: one row holding one cell per matter
Update(range, cells) == [ range |-> range, values |-> [ j \in DOMAIN cells |-> << cells[j] >> ] ]

\* updates, in the order the code appends them; every range is bound when
\* get_column_ranges returned.  orders[j] is the order in which the set
\* matter["Sponsors"] of the j-th matter is iterated by join.
Updates(ranges, data, orders) ==
    LET col(h, Value(_)) ==
            IF IsBound(ranges[h])
            THEN << Update(Get(ranges[h]), [ j \in DOMAIN data |-> Value(j) ]) >>
            ELSE << >>
    IN  col(NAME_COLUMN, LAMBDA j : data[j].MatterName)
        \o col(SUMMARY_COLUMN, LAMBDA j : SummaryOf(data[j]))
        \o col(INFO_COLUMN, LAMBDA j : Join(data[j].RelatedBills))
        \o col(SPONSORS_COUNT_COLUMN, LAMBDA j : data[j].SponsorCount)
        \o col(REMAINING_COLUMN, LAMBDA j : data[j].SponsorsRemainingNeeded)
        \o col(PRIME_SPONSOR_COLUMN, LAMBDA j : data[j].PrimeSponsor)
        \o col(SPONSORS_LIST_COLUMN, LAMBDA j : Join(orders[j]))

\* faulty variant of BatchRequests: one request per column
PerColumnRequests(updates) ==
    [ j \in DOMAIN updates |-> [ valueInputOption |-> "RAW", data |-> << updates[j] >> ] ]

\* lines 220-229: the batchUpdate requests issued for updates: one request
\* carrying all of them, none when there is no update
BatchRequests(updates) ==
    IF updates # << >>
    THEN << [ valueInputOption |-> "RAW", data |-> updates ] >>
    ELSE << >>

\* the iteration orders of the Sponsors sets of the matters
SponsorOrders(data) ==
    { o \in [ DOMAIN data -> UNION { Orders(data[j].Sponsors) : j \in DOMAIN data } ] :
        \A j \in DOMAIN data : Range(o[j]) = data[j].Sponsors /\ Len(o[j]) = Cardinality(data[j].Sponsors) }

(***************************************************************************)
(* State machine                                                           *)
(***************************************************************************)
NoError == [ type |-> "none", site |-> "", detail |-> << >> ]
Raised(type, site, detail) == [ type |-> type, site |-> site, detail |-> detail ]

\* faulty variant of SponsorsRequestFailed: the status is not looked at
SponsorsRequestNeverFailed(status) == FALSE

\* response.status_code != 200 at the three request sites
ResolveRequestFailed(status) == status # HTTP_OK
SponsorsRequestFailed(status) == status # HTTP_OK
RelatedRequestFailed(status) == status # HTTP_OK

\* the dict at position j of sorted_matters is the same object at every
\* position of the same file name: an assignment to it shows at all of them
AssignMatter(matters, names, j, new) ==
    [ m \in DOMAIN matters |-> IF names[m] = names[j] THEN new ELSE matters[m] ]

Init ==
    /\ pc = "main"
    /\ call_args \in BOOLEAN
    /\ api_token \in BOOLEAN
    /\ headers = Unbound
    /\ column_ranges = Unbound
    /\ values = << >>
    /\ file_names = << >>
    /\ chunks = << >>
    /\ all_matters = << >>
    /\ file_name_to_matter = << >>
    /\ sorted_matters = << >>
    /\ k = 0
    /\ sponsors = Unbound
    /\ roster = Unbound
    /\ related = Unbound
    /\ matter_data = Unbound
    /\ error = NoError
    /\ warnings = << >>
    /\ bad_status = FALSE
    /\ writes = << >>

\* main caught an exception (line 121) or logged an error and returned
Abort(e) == pc' = "done" /\ error' = e

\* main.py 98-108 with sheets.collect_filenos: reads row 2, then the "File #" column
CollectFilenos ==
    /\ pc = "main"
    /\ UNCHANGED << call_args, api_token, chunks, all_matters, file_name_to_matter,
                    sorted_matters, k, sponsors, roster, related, matter_data,
                    warnings, bad_status, writes >>
    /\ IF ~call_args
       THEN \* collect_filenos() is called without its two positional arguments
            /\ Abort(Raised("TypeError", "collect_filenos", << >>))
            /\ UNCHANGED << headers, column_ranges, values, file_names >>
       ELSE \E row \in HeaderRows, vals \in Columns :
            LET r == get_column_ranges(row) IN
            /\ headers' = Some(row)
            /\ column_ranges' = r.column_ranges
            /\ IF r.raised
               THEN /\ Abort(Raised("ValueError", "get_column_ranges", r.errors))
                    /\ UNCHANGED << values, file_names >>
               ELSE /\ values' = vals
                    /\ file_names' = FileNosOf(vals)
                    /\ IF FileNosOf(vals) = << >>
                       THEN Abort(Raised("logged", "main: no file names", << >>))
                       ELSE pc' = "resolve" /\ error' = error

\* legistar.get_matter_info: one pass of the chunk loop (lines 128-162), with
\* the token check (121-123) before the first pass and the merge, the check
\* for missing files and the reordering (165-174) after the last
ResolveChunk ==
    /\ pc = "resolve"
    /\ UNCHANGED << call_args, api_token, headers, column_ranges, values, file_names, sponsors,
                    roster, related, matter_data, warnings, writes >>
    /\ IF chunks = << >> /\ ~api_token
       THEN /\ Abort(Raised("ValueError", "get_matter_info: no token", << >>))
            /\ UNCHANGED << chunks, all_matters, file_name_to_matter, sorted_matters, bad_status >>
       ELSE LET i == Len(chunks) * CHUNK_SIZE
                chunk == ChunkAt(file_names, i)
            IN  \E status \in Statuses, resp \in Responses(chunk) :
                /\ chunks' = Append(chunks, chunk)
                /\ bad_status' = (bad_status \/ status # HTTP_OK)
                /\ IF ResolveRequestFailed(status)
                   THEN /\ Abort(Raised("HTTPError", "get_matter_info", << >>))
                        /\ UNCHANGED << all_matters, file_name_to_matter, sorted_matters >>
                   ELSE /\ all_matters' = all_matters \o resp
                        /\ IF HasNextChunk(file_names, i)
                           THEN /\ pc' = "resolve" /\ error' = error
                                /\ UNCHANGED << file_name_to_matter, sorted_matters >>
                           ELSE LET d == FileNameToMatter(all_matters \o resp)
                                    missing_files == MissingFiles(file_names, d)
                                IN  /\ file_name_to_matter' = d
                                    /\ IF missing_files # << >>
                                       THEN /\ Abort(Raised("ValueError", "get_matter_info: missing", missing_files))
                                            /\ UNCHANGED sorted_matters
                                       ELSE /\ sorted_matters' = SortedMatters(file_names, d)
                                            /\ pc' = "sponsors" /\ error' = error
    /\ k' = IF pc' = "sponsors" THEN 1 ELSE k

\* legistar.extend_matter_info, lines 71-99, with get_matter_sponsors, for
\* the k-th matter of the list comprehension at line 177
FetchSponsors ==
    /\ pc = "sponsors"
    /\ UNCHANGED << call_args, api_token, headers, column_ranges, values, file_names, chunks, all_matters,
                    file_name_to_matter, k, matter_data, writes >>
    /\ related' = Unbound
    /\ \E status \in Statuses, answer \in Rosters :
        LET matter == sorted_matters[k] IN
        /\ bad_status' = (bad_status \/ status # HTTP_OK)
        /\ IF SponsorsRequestFailed(status)
           THEN /\ Abort(Raised("HTTPError", "get_matter_sponsors", << >>))
                /\ UNCHANGED << sponsors, roster, sorted_matters, warnings >>
           ELSE /\ roster' = Some(answer)
                /\ IF \E j \in DOMAIN answer : SortKeyRaises(answer[j])
                   THEN /\ Abort(Raised("TypeError", "get_matter_sponsors: sorted", << >>))
                        /\ UNCHANGED << sponsors, sorted_matters, warnings >>
                   ELSE LET list == SortedSponsors(answer) IN
                        /\ sponsors' = Some(list)
                        /\ warnings' = IF HasPrime(list) THEN warnings
                                        ELSE Append(warnings, matter.MatterFile)
                        /\ IF SequenceKeyError(list)
                           THEN /\ Abort(Raised("KeyError", "extend_matter_info", << >>))
                                /\ sorted_matters' = AssignMatter(sorted_matters, file_names, k,
                                        [ PrimeSponsor |-> PrimeSponsorName(list) ] @@ matter)
                           ELSE /\ sorted_matters' = AssignMatter(sorted_matters, file_names, k,
                                        WithSponsorInfo(matter, list))
                                /\ pc' = "related" /\ error' = error

\* legistar.extend_matter_info, lines 101-104, with find_related_bills, and
\* the return of get_matter_info to main (lines 111-114) after the last matter
FetchRelated ==
    /\ pc = "related"
    /\ UNCHANGED << call_args, api_token, headers, column_ranges, values, file_names, chunks, all_matters,
                    file_name_to_matter, warnings, writes >>
    /\ \E status \in Statuses,
          resp \in RelatedResponses(sorted_matters[k].MatterFile) :
        LET matter == sorted_matters[k]
            related_bills == RelatedFiles(resp, matter.MatterFile)
            enriched == AssignMatter(sorted_matters, file_names, k,
                                     WithRelatedBills(matter, related_bills))
        IN
        /\ bad_status' = (bad_status \/ status # HTTP_OK)
        /\ IF RelatedRequestFailed(status)
           THEN /\ Abort(Raised("HTTPError", "find_related_bills", << >>))
                /\ UNCHANGED << sponsors, roster, related, sorted_matters, k, matter_data >>
           ELSE /\ related' = Some(resp)
                /\ sponsors' = Unbound
                /\ roster' = Unbound
                /\ sorted_matters' = enriched
                /\ error' = error
                /\ IF k < Len(sorted_matters)
                   THEN pc' = "sponsors" /\ k' = k + 1 /\ UNCHANGED matter_data
                   ELSE /\ k' = k
                        /\ matter_data' = Some(enriched)
                        /\ pc' = IF enriched = << >> THEN "done" ELSE "upload"

\* main.py 116-120 with sheets.upload_file_infos: reads row 2 again, then
\* issues one batchUpdate carrying every column
Upload ==
    /\ pc = "upload"
    /\ UNCHANGED << call_args, api_token, values, file_names, chunks, all_matters,
                    file_name_to_matter, sorted_matters, k, sponsors, roster,
                    matter_data, warnings, bad_status >>
    /\ related' = Unbound
    /\ \E row \in HeaderRows :
        LET r == get_column_ranges(row) IN
        /\ headers' = Some(row)
        /\ column_ranges' = r.column_ranges
        /\ IF r.raised
           THEN /\ Abort(Raised("ValueError", "get_column_ranges", r.errors))
                /\ UNCHANGED writes
           ELSE \E orders \in SponsorOrders(Get(matter_data)) :
                LET updates == Updates(Get(r.column_ranges), Get(matter_data), orders) IN
                /\ pc' = "done" /\ error' = error
                /\ writes' = writes \o BatchRequests(updates)

Next == CollectFilenos \/ ResolveChunk \/ FetchSponsors \/ FetchRelated \/ Upload

Spec == Init /\ [][Next]_vars

(***************************************************************************)
(* Vocabulary of the properties                                            *)
(***************************************************************************)
\* the chunk loop of get_matter_info has run to its end and no resolve query failed
AllChunksAnswered ==
    /\ chunks # << >>
    /\ Len(chunks) * CHUNK_SIZE >= Len(file_names)
    /\ ~(error.type = "HTTPError" /\ error.site = "get_matter_info")
\* get_matter_info has returned or raised
ResolutionEnded == pc \in { "upload", "done" } /\ chunks # << >>
UpstreamFiles == { all_matters[m].MatterFile : m \in DOMAIN all_matters }
\* the identifiers of the input with no record in the answers of the chunk queries
AbsentFiles == Range(file_names) \ UpstreamFiles
NoDuplicates(list) == \A a, b \in DOMAIN list : a # b => list[a] # list[b]
EnrichedFields == { "PrimeSponsor", "SponsorCount", "Sponsors", "SponsorsRemainingNeeded", "RelatedBills" }
IsEnriched(matter) == EnrichedFields \subseteq DOMAIN matter
\* a sponsor record without a sequence value: no element, or an empty one
NoSequenceValue(sp) == ~HasSeq(sp) \/ sp.MatterSponsorSequence = NoneVal
EnrichmentRaised == error.type \in { "KeyError", "TypeError" } /\ error.site # "collect_filenos"

(***************************************************************************)
(* C1  resolve returns N enriched matters in input order.                  *)
(***************************************************************************)
\* C1: when the input has no duplicates, every identifier has a record in the
\* answers of the chunk queries and no upstream call answered a non-success
\* status, get_matter_info returns a list as long as the input whose i-th
\* matter is enriched and carries the i-th identifier as its MatterFile.
C1_ReturnsAllInOrder ==
    (ResolutionEnded /\ AllChunksAnswered /\ NoDuplicates(file_names)
        /\ AbsentFiles = {} /\ ~bad_status)
    => /\ IsBound(matter_data)
       /\ Len(Get(matter_data)) = Len(file_names)
       /\ \A j \in DOMAIN file_names :
            /\ Get(matter_data)[j].MatterFile = file_names[j]
            /\ IsEnriched(Get(matter_data)[j])

\* C1 restricted to the runs in which the enrichment raised nothing
C1_ReturnsAllInOrderUnlessRaised ==
    EnrichmentRaised \/ C1_ReturnsAllInOrder

(***************************************************************************)
(* C2  missing identifiers are all reported and nothing is returned.       *)
(***************************************************************************)
\* C2: when every chunk query succeeded and some identifier of the input has
\* no record in the merged answers, get_matter_info raises the error that
\* lists exactly the absent identifiers of the input (each of them, in input
\* order), returns no list, and nothing is enriched or written.
C2_IncompleteResolution ==
    (AllChunksAnswered /\ AbsentFiles # {})
    => /\ pc = "done"
       /\ error.type = "ValueError" /\ error.site = "get_matter_info: missing"
       /\ Range(error.detail) = AbsentFiles
       /\ \A a, b \in DOMAIN error.detail :
            a < b => \E x, y \in DOMAIN file_names :
                        x < y /\ file_names[x] = error.detail[a] /\ file_names[y] = error.detail[b]
       /\ Len(error.detail) = Cardinality({ j \in DOMAIN file_names : file_names[j] \in AbsentFiles })
       /\ ~IsBound(matter_data)
       /\ sorted_matters = << >>
       /\ writes = << >>

\* two identifiers of the input are absent and both are reported
C2_Witness ==
    /\ AllChunksAnswered
    /\ Cardinality(AbsentFiles) >= 2
    /\ error.site = "get_matter_info: missing"
    /\ Len(error.detail) >= 2

(***************************************************************************)
(* C3  fail-closed run.                                                    *)
(***************************************************************************)
\* C3: once an upstream query (resolve, sponsors or related bills) answered a
\* non-success status the run has stopped at that call with an HTTP error,
\* no list was returned to main and no write was issued; and a write is
\* issued only after get_matter_info returned one enriched matter per
\* requested identifier, in a run without a failed query.
C3_FailClosed ==
    /\ bad_status =>
            /\ pc = "done"
            /\ error.type = "HTTPError"
            /\ ~IsBound(matter_data)
            /\ writes = << >>
    /\ writes # << >> =>
            /\ ~bad_status
            /\ Len(writes) = 1
            /\ IsBound(matter_data)
            /\ Len(Get(matter_data)) = Len(file_names)
            /\ \A j \in DOMAIN file_names :
                    /\ Get(matter_data)[j].MatterFile = file_names[j]
                    /\ IsEnriched(Get(matter_data)[j])

\* a related-bills query fails after the first matter was enriched: the run
\* stops there with partly enriched matters and nothing is returned or written
C3_Witness ==
    /\ bad_status
    /\ error.site = "find_related_bills"
    /\ k = 2
    /\ IsEnriched(sorted_matters[1])
    /\ ~IsBound(matter_data)
    /\ writes = << >>

(***************************************************************************)
(* C4  SponsorsRemainingNeeded = max(26 - SponsorCount, 0).                *)
(***************************************************************************)
\* C4: every matter that has a SponsorsRemainingNeeded has
\* SponsorsRemainingNeeded = max(26 - SponsorCount, 0): it is never
\* negative and it is 0 when SponsorCount >= 26.
C4_RemainingNeeded ==
    \A j \in DOMAIN sorted_matters :
        "SponsorsRemainingNeeded" \in DOMAIN sorted_matters[j] =>
            LET m == sorted_matters[j] IN
            /\ m.SponsorsRemainingNeeded >= 0
            /\ m.SponsorCount >= 26 => m.SponsorsRemainingNeeded = 0
            /\ m.SponsorCount < 26 => m.SponsorsRemainingNeeded = 26 - m.SponsorCount

\* a matter with more than 26 distinct sequences needs 0 more sponsors
C4_Witness ==
    /\ sorted_matters # << >>
    /\ "SponsorsRemainingNeeded" \in DOMAIN sorted_matters[1]
    /\ sorted_matters[1].SponsorCount > 26
    /\ sorted_matters[1].SponsorsRemainingNeeded = 0

(***************************************************************************)
(* C5  SponsorCount counts distinct sequence values.                       *)
(***************************************************************************)
\* the sequence values of the roster upstream answered, as a list
RosterSequences == [ j \in DOMAIN Get(roster) |-> Get(roster)[j].MatterSponsorSequence ]

\* C5: when extend_matter_info has set the sponsor fields of the k-th matter,
\* its SponsorCount is the number of distinct sequence values of the roster
\* upstream answered, the prime sponsor's "0" included and equal values
\* counted once: the sequences "0", "1", "1" give 2.
C5_SponsorCount ==
    (pc = "related" /\ IsBound(roster))
    => /\ sorted_matters[k].SponsorCount = Cardinality(Range(RosterSequences))
       /\ ("0" \in Range(RosterSequences)
            => sorted_matters[k].SponsorCount
                 = 1 + Cardinality(Range(RosterSequences) \ { "0" }))
       /\ (RosterSequences \in { << "0", "1", "1" >>, << "1", "0", "1" >>, << "1", "1", "0" >> }
            => sorted_matters[k].SponsorCount = 2)

\* the roster of the reference scenario is counted as 2
C5_Witness ==
    /\ pc = "related" /\ IsBound(roster)
    /\ RosterSequences = << "0", "1", "1" >>
    /\ sorted_matters[k].SponsorCount = 2

(***************************************************************************)
(* C6  the prime sponsor and the sponsor-name set.                         *)
(***************************************************************************)
\* the names of the records of the answered roster whose sequence is not "0"
NonPrimeNames ==
    { Get(roster)[j].MatterSponsorName :
        j \in { m \in DOMAIN Get(roster) : Get(roster)[m].MatterSponsorSequence # "0" } }

\* C6 as stated: the sponsor-name set is exactly the names of the sponsors
\* whose sequence is not "0", and the PrimeSponsor name is not a member of it.
C6_PrimeNeverListed ==
    (pc = "related" /\ IsBound(roster))
    => /\ sorted_matters[k].Sponsors = NonPrimeNames
       /\ sorted_matters[k].PrimeSponsor \notin sorted_matters[k].Sponsors

\* C6 as amended: the sponsor-name set is exactly the names of the sponsor
\* records whose sequence is not "0" (no record of sequence "0" contributes a
\* name), and the PrimeSponsor name is a member of it only when a record of
\* another sequence bears the same name.
C6_PrimeRecordExcluded ==
    (pc = "related" /\ IsBound(roster))
    => /\ sorted_matters[k].Sponsors = NonPrimeNames
       /\ \A name \in sorted_matters[k].Sponsors :
            \E j \in DOMAIN Get(roster) :
                /\ Get(roster)[j].MatterSponsorName = name
                /\ Get(roster)[j].MatterSponsorSequence # "0"
       /\ (\A j \in DOMAIN Get(roster) :
                Get(roster)[j].MatterSponsorName = sorted_matters[k].PrimeSponsor
                    => Get(roster)[j].MatterSponsorSequence = "0")
            => sorted_matters[k].PrimeSponsor \notin sorted_matters[k].Sponsors

\* a roster with a prime sponsor and another sponsor: only the other is listed
C6_Witness ==
    /\ pc = "related" /\ IsBound(roster)
    /\ Len(Get(roster)) = 2
    /\ sorted_matters[k].PrimeSponsor = "A"
    /\ sorted_matters[k].Sponsors = { "B" }

(***************************************************************************)
(* C7  RelatedBills excludes the matter itself and keeps upstream order.   *)
(***************************************************************************)
\* the matter find_related_bills was last called for
LastEnriched == IF pc = "sponsors" THEN k - 1 ELSE k
\* the positions of the last matters-by-name answer that carry a MatterFile
\* other than own, in ascending order
KeptPositions(own) ==
    { j \in DOMAIN Get(related) :
        "MatterFile" \in DOMAIN Get(related)[j] /\ Get(related)[j].MatterFile # own }

Concat(lists) ==
    LET F[j \in 0..Len(lists)] == IF j = 0 THEN << >> ELSE F[j - 1] \o lists[j]
    IN  F[Len(lists)]

\* C8: the chunks queried are consecutive slices of at most 15 identifiers
\* that make up a prefix of the list; when the loop has ended without a
\* failed query there are ceil(N / 15) of them (2 for N = 16), none empty,
\* and together they are the whole list; and the merged mapping has one key
\* per MatterFile of the answers, with no key twice, each key mapped to a
\* record of that MatterFile.
C8_Chunking ==
    /\ \A c \in DOMAIN chunks : Len(chunks[c]) >= 1 /\ Len(chunks[c]) <= 15
    /\ \A c \in 1..(Len(chunks) - 1) : Len(chunks[c]) = 15
    /\ Concat(chunks) = SubSeq(file_names, 1, Len(Concat(chunks)))
    /\ AllChunksAnswered =>
            /\ Len(chunks) = (Len(file_names) + 14) \div 15
            /\ Len(file_names) = 16 => Len(chunks) = 2
            /\ Concat(chunks) = file_names
            /\ NoDuplicates([ j \in DOMAIN file_name_to_matter |-> file_name_to_matter[j].key ])
            /\ { file_name_to_matter[j].key : j \in DOMAIN file_name_to_matter } = UpstreamFiles
            /\ \A j \in DOMAIN file_name_to_matter :
                    /\ file_name_to_matter[j].value \in Range(all_matters)
                    /\ file_name_to_matter[j].value.MatterFile = file_name_to_matter[j].key

\* 16 identifiers were resolved with 2 queries and merged into 16 keys
C8_Witness ==
    /\ AllChunksAnswered
    /\ Len(file_names) = 16
    /\ Len(chunks) = 2
    /\ Len(file_name_to_matter) = 16
    /\ pc = "sponsors"

(***************************************************************************)
(* C9  malformed sponsor data is tolerated.                                *)
(***************************************************************************)
MalformedRoster ==
    \/ \E j \in DOMAIN Get(roster) : NoSequenceValue(Get(roster)[j])
    \/ Cardinality({ j \in DOMAIN Get(roster) : GetSeq(Get(roster)[j]) = "0" }) > 1

\* C9: when upstream answered a roster in which a record has no sequence
\* value or several records have sequence "0", the enrichment raises no
\* error: the run goes on to the related-bills query of that matter.
C9_MalformedTolerated ==
    (IsBound(roster) /\ MalformedRoster) => ~EnrichmentRaised

\* the part of C9 the code meets: several records of sequence "0" (and each
\* record with a sequence value) raise nothing
C9_DuplicatePrimeTolerated ==
    (IsBound(roster) /\ \A j \in DOMAIN Get(roster) : ~NoSequenceValue(Get(roster)[j]))
        => ~EnrichmentRaised

(***************************************************************************)
(* C10  missing column headers.                                            *)
(***************************************************************************)
EightHeaders ==
    { "File #", "Name", "Prime Sponsor", "Original Summary", "# Current Co-Sponsors",
      "# Co-Sponsors Needed", "Current Co-Sponsors", "Bill History" }
AbsentHeaders == EightHeaders \ Range(Get(headers))

\* C10: after row 2 was read, get_column_ranges has raised exactly when one
\* of the eight required headers is absent from the row; the error then
\* lists every absent header once, no column mapping is returned, the run
\* has stopped and no write was issued; otherwise a mapping with a range
\* for each of the eight headers is returned.
C10_MissingColumns ==
    /\ IsBound(headers) =>
            /\ (error.site = "get_column_ranges") <=> (AbsentHeaders # {})
            /\ AbsentHeaders # {} =>
                    /\ pc = "done"
                    /\ error.type = "ValueError"
                    /\ Range(error.detail) = AbsentHeaders
                    /\ Len(error.detail) = Cardinality(AbsentHeaders)
                    /\ ~IsBound(column_ranges)
                    /\ writes = << >>
            /\ AbsentHeaders = {} =>
                    /\ IsBound(column_ranges)
                    /\ DOMAIN Get(column_ranges) = EightHeaders
                    /\ \A h \in EightHeaders : IsBound(Get(column_ranges)[h])
    /\ ~IsBound(headers) => error.site # "get_column_ranges"

\* upload_file_infos finds two headers gone after the matters were enriched:
\* both are reported and nothing is written
C10_Witness ==
    /\ IsBound(headers) /\ IsBound(matter_data)
    /\ error.site = "get_column_ranges"
    /\ Len(error.detail) >= 2
    /\ NAME_COLUMN \in Range(error.detail)
    /\ writes = << >>

(***************************************************************************)
(* C11  one batched write carrying every column.                           *)
(***************************************************************************)
\* the headers of the columns upload_file_infos writes
WrittenHeaders == EightHeaders \ { "File #" }
RangesOf(request) == { request.data[u].range : u \in DOMAIN request.data }

\* C11: at most one write request is ever issued; the request carries one
\* update for each of the seven written columns, each with one row per
\* matter, so that in every state either no column or every column has been
\* written; and an upload that ends without an error has issued it.
C11_SingleBatchedWrite ==
    /\ Len(writes) <= 1
    /\ writes # << >> =>
            /\ pc = "done" /\ error.type = "none"
            /\ Len(writes[1].data) = 7
            /\ RangesOf(writes[1]) = { Get(Get(column_ranges)[h]) : h \in WrittenHeaders }
            /\ Cardinality(RangesOf(writes[1])) = 7
            /\ \A u \in DOMAIN writes[1].data :
                    Len(writes[1].data[u].values) = Len(Get(matter_data))
    /\ (pc = "done" /\ error.type = "none" /\ IsBound(matter_data)) => Len(writes) = 1

\* two matters were written: one request with seven updates of two rows each
C11_Witness ==
    /\ Len(writes) = 1
    /\ Len(writes[1].data) = 7
    /\ Len(Get(matter_data)) = 2
    /\ \A u \in DOMAIN writes[1].data : Len(writes[1].data[u].values) = 2

(***************************************************************************)
(* C12  PrimeSponsor.                                                      *)
(***************************************************************************)
\* the names of the records of the answered roster whose sequence is "0"
PrimeNames ==
    { Get(roster)[j].MatterSponsorName :
        j \in { m \in DOMAIN Get(roster) : GetSeq(Get(roster)[m]) = "0" } }

\* what C12 says of the PrimeSponsor field once extend_matter_info has set
\* it from the sorted roster: a name of a record of sequence "0" when there
\* is one, None and a warning for the matter otherwise
PrimeSponsorAsStated ==
    LET m == sorted_matters[k] IN
    IsBound(sponsors) =>
        /\ PrimeNames # {} => m.PrimeSponsor \in PrimeNames
        /\ PrimeNames = {} =>
                /\ m.PrimeSponsor = NoneVal
                /\ m.MatterFile \in Range(warnings)

\* C12: when upstream has answered the roster of the k-th matter,
\* PrimeSponsor is the name of a sponsor of sequence "0" if there is one;
\* if there is none, PrimeSponsor is None, a warning is logged, and the
\* enrichment still completes: it raises nothing and sets SponsorCount,
\* Sponsors and SponsorsRemainingNeeded before the related-bills query, and
\* RelatedBills after it.
C12_PrimeSponsor ==
    /\ IsBound(roster) =>
            /\ PrimeSponsorAsStated
            /\ PrimeNames = {} =>
                    /\ ~EnrichmentRaised
                    /\ EnrichedFields \ { "RelatedBills" } \subseteq DOMAIN sorted_matters[k]
    /\ IsBound(related) => IsEnriched(sorted_matters[LastEnriched])

\* the part of C12 the code meets: the PrimeSponsor field is as stated, and
\* a roster without a prime sponsor whose records all have a sequence value
\* is enriched in full
C12_PrimeSponsorUnlessRaised ==
    /\ IsBound(roster) =>
            /\ PrimeSponsorAsStated
            /\ (PrimeNames = {} /\ ~MalformedRoster) =>
                    /\ ~EnrichmentRaised
                    /\ EnrichedFields \ { "RelatedBills" } \subseteq DOMAIN sorted_matters[k]
    /\ IsBound(related) => IsEnriched(sorted_matters[LastEnriched])

\* a roster without a prime sponsor is enriched: None, a warning, the counts
C12_WitnessNoPrime ==
    /\ pc = "related" /\ IsBound(roster)
    /\ Get(roster) # << >> /\ PrimeNames = {}
    /\ sorted_matters[k].PrimeSponsor = NoneVal
    /\ sorted_matters[k].MatterFile \in Range(warnings)
    /\ sorted_matters[k].SponsorCount >= 1

(***************************************************************************)
(* C13  row alignment between the column read and the columns written.     *)
(***************************************************************************)
\* the data rows of the "File #" column that hold an identifier
IdentifierRows == { r \in DOMAIN values : values[r] # << >> }
\* the update of the request that writes the column of header h
UpdateOf(request, h) ==
    request.data[CHOOSE u \in DOMAIN request.data :
                    request.data[u].range = Get(Get(column_ranges)[h])]

\* what holds of every write: the column read and the columns written start
\* at sheet row 3, and data row r of every written column carries the value
\* of the r-th matter of matter_data, which is the r-th identifier read
WrittenInListOrder ==
    writes # << >> =>
        /\ \A u \in DOMAIN writes[1].data :
                /\ writes[1].data[u].range.row = 3
                /\ Len(writes[1].data[u].values) = Len(file_names)
        /\ Get(Get(column_ranges)[FILE_COLUMN]).row = 3
        /\ \A r \in DOMAIN file_names :
                /\ Get(matter_data)[r].MatterFile = file_names[r]
                /\ UpdateOf(writes[1], NAME_COLUMN).values[r] = << Get(matter_data)[r].MatterName >>
                /\ UpdateOf(writes[1], SPONSORS_COUNT_COLUMN).values[r] = << Get(matter_data)[r].SponsorCount >>
                /\ UpdateOf(writes[1], PRIME_SPONSOR_COLUMN).values[r] = << Get(matter_data)[r].PrimeSponsor >>

\* C13: in every write, the values written at data row r are those of the
\* identifier stored at data row r of the "File #" column, and every row
\* that holds an identifier is written, empty rows between identifiers
\* included in the count of rows.
C13_RowAlignment ==
    /\ WrittenInListOrder
    /\ writes # << >> =>
            /\ \A r \in DOMAIN file_names :
                    /\ r \in IdentifierRows
                    /\ Strip(values[r][1]) = Get(matter_data)[r].MatterFile
            /\ \A r \in IdentifierRows : r <= Len(file_names)

\* the part of C13 the code meets: the rows are aligned when no empty row
\* stands before an identifier in the column
C13_AlignedWithoutGaps ==
    /\ WrittenInListOrder
    /\ (writes # << >> /\ \A r \in DOMAIN values : r <= Cardinality(IdentifierRows) => r \in IdentifierRows)
        => /\ \A r \in DOMAIN file_names :
                    /\ r \in IdentifierRows
                    /\ Strip(values[r][1]) = Get(matter_data)[r].MatterFile
           /\ \A r \in IdentifierRows : r <= Len(file_names)

\* the column with an empty row between two identifiers was written: the
\* values of the identifier of data row 3 went to data row 2
C13_GapWritten ==
    /\ writes # << >>
    /\ values = GapColumn
    /\ Len(UpdateOf(writes[1], NAME_COLUMN).values) = 2
    /\ Get(matter_data)[2].MatterFile = Strip(values[3][1])

\* two identifiers in two adjacent rows were written to their rows
C13_AlignedWritten ==
    /\ writes # << >>
    /\ Len(values) = 2 /\ IdentifierRows = { 1, 2 }
    /\ Get(matter_data)[2].MatterFile = Strip(values[2][1])
====
